---------------------------- MODULE Spec2Model ----------------------------
(***************************************************************************)
(* Model of lodestone-destination (src/src/lib.rs): the function           *)
(*   destination(point, distance, bearing, units) -> FeaturePoint          *)
(* executed line by line.                                                  *)
(*                                                                         *)
(* Numbers.  An f64 is modelled as an exact real.  A real is either a      *)
(* monomial  (n/d) * pi^pi * RADIUS^r * KM_TO_MI^m  (op = "num", n/d in    *)
(* lowest terms, d > 0) or a term built by an operation whose value has no *)
(* monomial form (op = "sin", "cos", "asin", "atan2", "mul", "div", "add", *)
(* "neg").  wgs84::RADIUS and the kilometres-to-miles factor are positive  *)
(* reals that stay symbolic; equal terms denote equal reals.               *)
(*                                                                         *)
(* Strings are sequences of one-character strings, so that equality is     *)
(* exact (case and whitespace matter) and "contains" is decidable.         *)
(***************************************************************************)
EXTENDS Integers, Sequences, FiniteSets, TLC

-----------------------------------------------------------------------------
(* Bounds of the explored inputs *)

\* distances are j quarter turns of arc, j in -1..MaxQuarterTurns
MaxQuarterTurns == 2
\* latitudes are 90*i degrees, i in -MaxLatQuarters..MaxLatQuarters
MaxLatQuarters == 2
\* bearings are 90*k degrees, k in -1..MaxBearingQuarters (and 45 degrees)
MaxBearingQuarters == 4

-----------------------------------------------------------------------------
(* Exact arithmetic standing for f64 arithmetic *)

Abs(i) == IF i < 0 THEN -i ELSE i

RECURSIVE GCD(_, _)
GCD(a, b) == IF b = 0 THEN a ELSE GCD(b, a % b)

Num(n, d, p, r, m) ==
  IF n = 0
    THEN [op |-> "num", n |-> 0, d |-> 1, pi |-> 0, r |-> 0, m |-> 0]
    ELSE LET g == GCD(Abs(n), d)
         IN [op |-> "num", n |-> n \div g, d |-> d \div g,
             pi |-> p, r |-> r, m |-> m]

Rat(n, d) == Num(n, d, 0, 0, 0)
Int2Num(i) == Rat(i, 1)
Zero == Int2Num(0)
One == Int2Num(1)
\* q * pi, an angle in radians
PiTimes(n, d) == Num(n, d, 1, 0, 0)

IsNum(x) == x.op = "num"
IsZero(x) == IsNum(x) /\ x.n = 0
IsOne(x) == x = One
\* a plain rational: no symbolic factor
IsRat(x) == IsNum(x) /\ x.pi = 0 /\ x.r = 0 /\ x.m = 0
SameUnit(x, y) == x.pi = y.pi /\ x.r = y.r /\ x.m = y.m

Neg(x) ==
  IF IsNum(x) THEN Num(-x.n, x.d, x.pi, x.r, x.m)
  ELSE [op |-> "neg", x |-> x]

Mul(x, y) ==
  IF IsZero(x) \/ IsZero(y) THEN Zero
  ELSE IF IsOne(x) THEN y
  ELSE IF IsOne(y) THEN x
  ELSE IF IsNum(x) /\ IsNum(y)
    \* x and y are in lowest terms: cancelling crosswise keeps the product so
    THEN LET g1 == GCD(Abs(x.n), y.d)
             g2 == GCD(Abs(y.n), x.d)
         IN [op |-> "num", n |-> (x.n \div g1) * (y.n \div g2),
             d |-> (x.d \div g2) * (y.d \div g1),
             pi |-> x.pi + y.pi, r |-> x.r + y.r, m |-> x.m + y.m]
  ELSE [op |-> "mul", x |-> x, y |-> y]

Div(x, y) ==
  IF IsNum(y) /\ ~IsZero(y)
    THEN Mul(x, IF y.n < 0 THEN Num(-y.d, -y.n, -y.pi, -y.r, -y.m)
                ELSE Num(y.d, y.n, -y.pi, -y.r, -y.m))
  ELSE [op |-> "div", x |-> x, y |-> y]

Add(x, y) ==
  IF IsZero(x) THEN y
  ELSE IF IsZero(y) THEN x
  ELSE IF IsNum(x) /\ IsNum(y) /\ SameUnit(x, y)
    THEN LET g == GCD(x.d, y.d)
         IN Num(x.n * (y.d \div g) + y.n * (x.d \div g), x.d * (y.d \div g),
                x.pi, x.r, x.m)
  ELSE [op |-> "add", x |-> x, y |-> y]

Sub(x, y) == Add(x, Neg(y))

-----------------------------------------------------------------------------
(* f64 methods used by destination *)

\* f64::to_radians: x * (pi / 180)
to_radians(x) == Mul(x, PiTimes(1, 180))

\* f64::to_degrees: x * (180 / pi)
to_degrees(x) == Mul(x, Num(180, 1, -1, 0, 0))

\* an angle that is a whole number of quarter turns
IsQuadrantal(x) ==
  IsZero(x) \/ (IsNum(x) /\ x.pi = 1 /\ x.r = 0 /\ x.m = 0 /\ x.d \in {1, 2})
\* its number of quarter turns, modulo a full turn
Quarter(x) == IF IsZero(x) THEN 0 ELSE ((2 \div x.d) * x.n) % 4

sin(x) ==
  IF IsQuadrantal(x)
    THEN Int2Num(CASE Quarter(x) = 0 -> 0 [] Quarter(x) = 1 -> 1
                   [] Quarter(x) = 2 -> 0 [] Quarter(x) = 3 -> -1)
  ELSE [op |-> "sin", x |-> x]

cos(x) ==
  IF IsQuadrantal(x)
    THEN Int2Num(CASE Quarter(x) = 0 -> 1 [] Quarter(x) = 1 -> 0
                   [] Quarter(x) = 2 -> -1 [] Quarter(x) = 3 -> 0)
  ELSE [op |-> "cos", x |-> x]

asin(x) ==
  IF x = Zero THEN Zero
  ELSE IF x = One THEN PiTimes(1, 2)
  ELSE IF x = Int2Num(-1) THEN PiTimes(-1, 2)
  ELSE [op |-> "asin", x |-> x]

\* y.atan2(x): the angle of the vector (x, y), in (-pi, pi]
atan2(y, x) ==
  IF IsRat(y) /\ IsRat(x) /\ y.n = 0
    THEN (IF x.n >= 0 THEN Zero ELSE PiTimes(1, 1))
  ELSE IF IsRat(y) /\ IsRat(x) /\ x.n = 0
    THEN (IF y.n > 0 THEN PiTimes(1, 2) ELSE PiTimes(-1, 2))
  ELSE IF IsRat(y) /\ IsRat(x) /\ Abs(y.n) = Abs(x.n) /\ y.d = x.d
    THEN (IF x.n > 0 THEN PiTimes(IF y.n > 0 THEN 1 ELSE -1, 4)
          ELSE PiTimes(IF y.n > 0 THEN 3 ELSE -3, 4))
  ELSE [op |-> "atan2", y |-> y, x |-> x]

-----------------------------------------------------------------------------
(* Strings *)

str_degrees == <<"d", "e", "g", "r", "e", "e", "s">>
str_kilometers == <<"k", "i", "l", "o", "m", "e", "t", "e", "r", "s">>
str_km == <<"k", "m">>
str_meters == <<"m", "e", "t", "e", "r", "s">>
str_m == <<"m">>
str_miles == <<"m", "i", "l", "e", "s">>
str_mi == <<"m", "i">>
str_radians == <<"r", "a", "d", "i", "a", "n", "s">>
str_leagues == <<"l", "e", "a", "g", "u", "e", "s">>
str_KM == <<"K", "M">>
str_Miles == <<"M", "i", "l", "e", "s">>
str_km_leading_space == <<" ", "k", "m">>
str_km_trailing_space == <<"k", "m", " ">>
str_empty == << >>

\* the literal of the panic! format string before its {} placeholder
UnknownUnitPrefix ==
  <<"U", "n", "k", "n", "o", "w", "n", " ", "u", "n", "i", "t", " ", "o", "f", " ", "m", "e", "a", "s", "u", "r", "e", "m", "e", "n", "t", ":", " ">>

\* needle occurs in hay as a contiguous substring
Contains(hay, needle) ==
  \E i \in 1..(Len(hay) + 1) :
    /\ i + Len(needle) - 1 <= Len(hay)
    /\ SubSeq(hay, i, i + Len(needle) - 1) = needle

-----------------------------------------------------------------------------
(* Collaborators from lodestone_core and lodestone_point *)

\* wgs84::RADIUS, the Earth radius in meters: a positive real kept symbolic
RADIUS == Num(1, 1, 0, 1, 0)

\* utils::km_to_mi: multiplication by the kilometres-to-miles factor
km_to_mi(x) == Mul(x, Num(1, 1, 0, 0, 1))

\* FeaturePoint::new(vec![a, b]) and FeaturePoint::coordinates()
FeaturePoint_new(v) == [coordinates |-> v]
coordinates(p) == p.coordinates

-----------------------------------------------------------------------------
(* destination, lines 33-49, as expressions *)

\* variant: the message leaves the token out
panic_unknown_unit_no_token(units) == [op |-> "panic", msg |-> UnknownUnitPrefix]

\* panic!("Unknown unit of measurement: {}", units)
panic_unknown_unit(units) == [op |-> "panic", msg |-> UnknownUnitPrefix \o units]

\* variant: the match ignores case for "km"
radius_of_case_insensitive(units) ==
  IF units = str_degrees THEN to_degrees(One)
  ELSE IF units = str_kilometers \/ units = str_km \/ units = str_KM
    THEN Div(RADIUS, Int2Num(1000))
  ELSE IF units = str_meters \/ units = str_m THEN RADIUS
  ELSE IF units = str_miles \/ units = str_mi
    THEN km_to_mi(Div(RADIUS, Int2Num(1000)))
  ELSE IF units = str_radians THEN One
  ELSE panic_unknown_unit(units)

\* variant: the kilometers arm forgets the division by 1000
radius_of_km_in_meters(units) ==
  IF units = str_degrees THEN to_degrees(One)
  ELSE IF units = str_kilometers \/ units = str_km THEN RADIUS
  ELSE IF units = str_meters \/ units = str_m THEN RADIUS
  ELSE IF units = str_miles \/ units = str_mi
    THEN km_to_mi(Div(RADIUS, Int2Num(1000)))
  ELSE IF units = str_radians THEN One
  ELSE panic_unknown_unit(units)

\* variant: the miles arm forgets km_to_mi
radius_of_miles_unconverted(units) ==
  IF units = str_degrees THEN to_degrees(One)
  ELSE IF units = str_kilometers \/ units = str_km
    THEN Div(RADIUS, Int2Num(1000))
  ELSE IF units = str_meters \/ units = str_m THEN RADIUS
  ELSE IF units = str_miles \/ units = str_mi
    THEN Div(RADIUS, Int2Num(1000))
  ELSE IF units = str_radians THEN One
  ELSE panic_unknown_unit(units)

\* the match on units
radius_of(units) ==
  IF units = str_degrees THEN to_degrees(One)
  ELSE IF units = str_kilometers \/ units = str_km
    THEN Div(RADIUS, Int2Num(1000))
  ELSE IF units = str_meters \/ units = str_m THEN RADIUS
  ELSE IF units = str_miles \/ units = str_mi
    THEN km_to_mi(Div(RADIUS, Int2Num(1000)))
  ELSE IF units = str_radians THEN One
  ELSE panic_unknown_unit(units)

\* variant: sin and cos of the angular distance exchanged
dlat_of_swapped(lat, distance, radius, bearing_rad) ==
  asin(Add(Mul(sin(lat), sin(Div(distance, radius))),
           Mul(Mul(cos(lat), cos(Div(distance, radius))), cos(bearing_rad))))

dlat_of(lat, distance, radius, bearing_rad) ==
  asin(Add(Mul(sin(lat), cos(Div(distance, radius))),
           Mul(Mul(cos(lat), sin(Div(distance, radius))), cos(bearing_rad))))

dlng_of(lng, lat, dlat, distance, radius, bearing_rad) ==
  Add(lng,
      atan2(Mul(Mul(sin(bearing_rad), sin(Div(distance, radius))), cos(lat)),
            Sub(cos(Div(distance, radius)), Mul(sin(lat), sin(dlat)))))

\* the whole call as a function of its arguments: a point, or the panic
destination(point, distance, bearing, units) ==
  LET coord == coordinates(point)
      lat == to_radians(coord[2])
      lng == to_radians(coord[1])
      bearing_rad == to_radians(bearing)
      radius == radius_of(units)
  IN IF radius.op = "panic" THEN radius
     ELSE LET dlat == dlat_of(lat, distance, radius, bearing_rad)
              dlng == dlng_of(lng, lat, dlat, distance, radius, bearing_rad)
          IN FeaturePoint_new(<<to_degrees(dlng), to_degrees(dlat)>>)

-----------------------------------------------------------------------------
(* Inputs of a call *)

KnownUnits ==
  {str_degrees, str_kilometers, str_km, str_meters, str_m, str_miles, str_mi,
   str_radians}

UnitStrings ==
  KnownUnits \cup {str_leagues, str_KM, str_Miles, str_km_leading_space,
                   str_km_trailing_space, str_empty}

\* longitudes in degrees, one of them outside [-180, 180]
Lngs == {-122, 0, 200}

Points ==
  {FeaturePoint_new(<<Int2Num(g), Int2Num(90 * i)>>) :
     g \in Lngs, i \in (-MaxLatQuarters)..MaxLatQuarters}

\* j quarter turns of great-circle arc, expressed by the caller in a unit
ArcLength(j, unit) ==
  CASE unit = "degrees" -> Int2Num(90 * j)
    [] unit = "radians" -> PiTimes(j, 2)
    [] unit = "meters" -> Mul(PiTimes(j, 2), RADIUS)
    [] unit = "kilometers" -> Div(Mul(PiTimes(j, 2), RADIUS), Int2Num(1000))
    [] unit = "miles" ->
         km_to_mi(Div(Mul(PiTimes(j, 2), RADIUS), Int2Num(1000)))

Distances ==
  {ArcLength(j, u) : j \in (-1)..MaxQuarterTurns,
                     u \in {"degrees", "radians", "meters", "kilometers", "miles"}}
  \cup {Int2Num(100)}

Bearings == {Int2Num(90 * k) : k \in (-1)..MaxBearingQuarters} \cup {Int2Num(45)}

-----------------------------------------------------------------------------
(* The call, line by line *)

VARIABLES
  pc,           \* position in destination
  point,        \* the caller's FeaturePoint, passed by reference
  distance, bearing, units,   \* the other arguments
  lat, lng, bearing_rad,      \* locals of lines 29-31
  radius,                     \* local of line 33
  dlat, dlng,                 \* locals of lines 42 and 44
  result,       \* the FeaturePoint returned to the caller
  panic_msg,    \* the message of the panic that unwound the call
  trig_calls    \* number of sin, cos, asin and atan2 calls made so far

vars ==
  <<pc, point, distance, bearing, units, lat, lng, bearing_rad, radius,
    dlat, dlng, result, panic_msg, trig_calls>>

\* a local not yet bound, a value not yet produced
Unset == [op |-> "unset"]

Init ==
  /\ pc = "to_radians"
  /\ point \in Points
  /\ distance \in Distances
  /\ bearing \in Bearings
  /\ units \in UnitStrings
  /\ lat = Unset /\ lng = Unset /\ bearing_rad = Unset
  /\ radius = Unset
  /\ dlat = Unset /\ dlng = Unset
  /\ result = Unset
  /\ panic_msg = Unset
  /\ trig_calls = 0

\* variant: latitude and longitude read from the wrong indices
ToRadians_swapped ==
  /\ pc = "to_radians"
  /\ LET coord == coordinates(point)
     IN /\ lat' = to_radians(coord[1])
        /\ lng' = to_radians(coord[2])
  /\ bearing_rad' = to_radians(bearing)
  /\ pc' = "match_units"
  /\ UNCHANGED <<point, distance, bearing, units, radius, dlat, dlng, result,
                 panic_msg, trig_calls>>

\* variant: lat.sin() and lat.cos() hoisted above the match
ToRadians_hoists_trig ==
  /\ pc = "to_radians"
  /\ LET coord == coordinates(point)
     IN /\ lat' = to_radians(coord[2])
        /\ lng' = to_radians(coord[1])
  /\ bearing_rad' = to_radians(bearing)
  /\ trig_calls' = trig_calls + 2
  /\ pc' = "match_units"
  /\ UNCHANGED <<point, distance, bearing, units, radius, dlat, dlng, result,
                 panic_msg>>

\* lines 28-31
ToRadians ==
  /\ pc = "to_radians"
  /\ LET coord == coordinates(point)
     IN /\ lat' = to_radians(coord[2])
        /\ lng' = to_radians(coord[1])
  /\ bearing_rad' = to_radians(bearing)
  /\ pc' = "match_units"
  /\ UNCHANGED <<point, distance, bearing, units, radius, dlat, dlng, result,
                 panic_msg, trig_calls>>

\* variant: an unknown unit comes back to the caller as an error value
MatchUnits_returns_err ==
  /\ pc = "match_units"
  /\ LET r == radius_of(units)
     IN IF r.op = "panic"
          THEN /\ result' = [op |-> "err", msg |-> r.msg]
               /\ pc' = "returned"
               /\ UNCHANGED <<radius, panic_msg>>
          ELSE /\ radius' = r
               /\ pc' = "dlat"
               /\ UNCHANGED <<result, panic_msg>>
  /\ UNCHANGED <<point, distance, bearing, units, lat, lng, bearing_rad,
                 dlat, dlng, trig_calls>>

\* lines 33-40
MatchUnits ==
  /\ pc = "match_units"
  /\ LET r == radius_of(units)
     IN IF r.op = "panic"
          THEN /\ panic_msg' = r.msg
               /\ pc' = "panicked"
               /\ UNCHANGED radius
          ELSE /\ radius' = r
               /\ pc' = "dlat"
               /\ UNCHANGED panic_msg
  /\ UNCHANGED <<point, distance, bearing, units, lat, lng, bearing_rad,
                 dlat, dlng, result, trig_calls>>

\* variant: a latitude outside [-pi/2, pi/2] is rejected
ComputeDlat_validates_latitude ==
  /\ pc = "dlat"
  /\ IF IsNum(lat) /\ 2 * Abs(lat.n) > lat.d
       THEN /\ panic_msg' = <<"l", "a", "t">>
            /\ pc' = "panicked"
            /\ UNCHANGED <<dlat, trig_calls>>
       ELSE /\ dlat' = dlat_of(lat, distance, radius, bearing_rad)
            /\ trig_calls' = trig_calls + 6
            /\ pc' = "dlng"
            /\ UNCHANGED panic_msg
  /\ UNCHANGED <<point, distance, bearing, units, lat, lng, bearing_rad,
                 radius, dlng, result>>

\* lines 42-43: sin, cos, cos, sin, cos, asin
ComputeDlat ==
  /\ pc = "dlat"
  /\ dlat' = dlat_of(lat, distance, radius, bearing_rad)
  /\ trig_calls' = trig_calls + 6
  /\ pc' = "dlng"
  /\ UNCHANGED <<point, distance, bearing, units, lat, lng, bearing_rad,
                 radius, dlng, result, panic_msg>>

\* lines 44-47: sin, sin, cos, cos, sin, sin, atan2
ComputeDlng ==
  /\ pc = "dlng"
  /\ dlng' = dlng_of(lng, lat, dlat, distance, radius, bearing_rad)
  /\ trig_calls' = trig_calls + 7
  /\ pc' = "return"
  /\ UNCHANGED <<point, distance, bearing, units, lat, lng, bearing_rad,
                 radius, dlat, result, panic_msg>>

\* variant: the result is also written through the input reference
Return_in_place ==
  /\ pc = "return"
  /\ result' = FeaturePoint_new(<<to_degrees(dlng), to_degrees(dlat)>>)
  /\ point' = FeaturePoint_new(<<to_degrees(dlng), to_degrees(dlat)>>)
  /\ pc' = "returned"
  /\ UNCHANGED <<distance, bearing, units, lat, lng, bearing_rad,
                 radius, dlat, dlng, panic_msg, trig_calls>>

\* line 49
Return ==
  /\ pc = "return"
  /\ result' = FeaturePoint_new(<<to_degrees(dlng), to_degrees(dlat)>>)
  /\ pc' = "returned"
  /\ UNCHANGED <<point, distance, bearing, units, lat, lng, bearing_rad,
                 radius, dlat, dlng, panic_msg, trig_calls>>

Next == ToRadians \/ MatchUnits \/ ComputeDlat \/ ComputeDlng \/ Return

Spec == Init /\ [][Next]_vars

-----------------------------------------------------------------------------
(* Consistency of the stepwise model with the expression model *)

StepwiseAgrees ==
  /\ pc = "returned" => result = destination(point, distance, bearing, units)
  /\ pc = "panicked" =>
       destination(point, distance, bearing, units).op = "panic"

-----------------------------------------------------------------------------
(* Properties *)

\* C1: a call whose unit string is not a recognized token fails instead of
\* returning a point, the failure message contains the offending token, and
\* no radius was resolved for it (no unit is used as a default).
C1_UnknownUnitFails ==
  (units \notin KnownUnits /\ pc \notin {"to_radians", "match_units"}) =>
    /\ pc = "panicked"
    /\ panic_msg # Unset
    /\ Contains(panic_msg, units)
    /\ radius = Unset
    /\ result = Unset

C1_Witness ==
  /\ pc = "panicked"
  /\ units = str_leagues
  /\ Contains(panic_msg, str_leagues)

\* C2 as stated: an unrecognized unit reaches the caller as an explicit error
\* value returned by the call, not as an abrupt termination.
C2_ReturnsErrorValue ==
  (units \notin KnownUnits /\ pc \notin {"to_radians", "match_units"}) =>
    (pc = "returned" /\ result.op = "err")

\* C2 amended: an unrecognized unit terminates the call abruptly with a
\* panic: the call never returns, no value of any kind (point or error)
\* reaches the caller, and no further line of the function runs.
C2_UnknownUnitPanics ==
  (units \notin KnownUnits /\ pc \notin {"to_radians", "match_units"}) =>
    /\ pc = "panicked"
    /\ result = Unset
    /\ ~ENABLED Next

C2_Witness ==
  /\ pc = "panicked"
  /\ units = str_km_trailing_space
  /\ result = Unset

\* C3: the accepted unit strings are exactly "degrees", "kilometers", "km",
\* "meters", "m", "miles", "mi", "radians"; every other string, such as
\* "KM", " km" or "", is rejected.
C3_AcceptedUnitsExact ==
  pc \notin {"to_radians", "match_units"} =>
    (pc # "panicked" <=>
       units \in {str_degrees, str_kilometers, str_km, str_meters, str_m,
                  str_miles, str_mi, str_radians})

C3_Witness ==
  /\ pc = "panicked"
  /\ units \in {str_KM, str_km_leading_space, str_empty}

\* C4: for a recognized unit the divisor R of the distance is 180/pi for
\* "degrees", RADIUS/1000 for "kilometers"/"km", RADIUS for "meters"/"m",
\* km_to_mi(RADIUS/1000) for "miles"/"mi" and 1 for "radians"; a unit and its
\* abbreviation give the same result for the same other inputs.
C4_AngularRadiusDivisor ==
  LET R == CASE units = str_degrees -> Num(180, 1, -1, 0, 0)
             [] units \in {str_kilometers, str_km} -> Div(RADIUS, Int2Num(1000))
             [] units \in {str_meters, str_m} -> RADIUS
             [] units \in {str_miles, str_mi} ->
                  km_to_mi(Div(RADIUS, Int2Num(1000)))
             [] units = str_radians -> One
             [] OTHER -> Unset
      other == CASE units = str_kilometers -> str_km
                 [] units = str_km -> str_kilometers
                 [] units = str_meters -> str_m
                 [] units = str_m -> str_meters
                 [] units = str_miles -> str_mi
                 [] units = str_mi -> str_miles
                 [] OTHER -> units
  IN /\ pc \in {"dlat", "dlng", "return", "returned"} => radius = R
     /\ pc = "returned" =>
          result = destination(point, distance, bearing, other)

C4_Witness ==
  /\ pc = "returned"
  /\ units = str_mi
  /\ distance = ArcLength(1, "miles")
  /\ radius = km_to_mi(Div(RADIUS, Int2Num(1000)))
  /\ Div(distance, radius) = PiTimes(1, 2)

\* C5: a call with a recognized unit returns a point of exactly two
\* coordinates, longitude then latitude, with
\*   latitude  = degrees(asin(sin(lat1)*cos(d) + cos(lat1)*sin(d)*cos(b)))
\*   longitude = degrees(lng1 + atan2(sin(b)*sin(d)*cos(lat1),
\*                                    cos(d) - sin(lat1)*sin(lat2)))
\* where lat1, lng1, b are input coordinate 1, coordinate 0 and the bearing
\* in radians and d is the angular distance.
C5_ForwardGeodesicFormula ==
  pc = "returned" =>
    LET lat1 == to_radians(coordinates(point)[2])
        lng1 == to_radians(coordinates(point)[1])
        b == to_radians(bearing)
        d == Div(distance, radius)
        lat2 == asin(Add(Mul(sin(lat1), cos(d)),
                         Mul(Mul(cos(lat1), sin(d)), cos(b))))
        lng2 == Add(lng1, atan2(Mul(Mul(sin(b), sin(d)), cos(lat1)),
                                Sub(cos(d), Mul(sin(lat1), sin(lat2)))))
    IN /\ Len(coordinates(result)) = 2
       /\ coordinates(result)[1] = to_degrees(lng2)
       /\ coordinates(result)[2] = to_degrees(lat2)

C5_Witness ==
  /\ pc = "returned"
  /\ point = FeaturePoint_new(<<Int2Num(-122), Int2Num(0)>>)
  /\ Div(distance, radius) = PiTimes(1, 2)
  /\ bearing = Int2Num(90)
  /\ result = FeaturePoint_new(<<Int2Num(-32), Int2Num(0)>>)

\* C6: the unrecognized-unit failure happens before any trigonometric call:
\* on the failing path no sin, cos, asin or atan2 has run, neither dlat nor
\* dlng has been computed and no result point exists.
C6_FailsBeforeTrigonometry ==
  pc = "panicked" =>
    /\ trig_calls = 0
    /\ dlat = Unset
    /\ dlng = Unset
    /\ result = Unset

C6_Witness ==
  /\ pc = "panicked"
  /\ units = str_Miles
  /\ lat # Unset
  /\ trig_calls = 0

\* C7: with a recognized unit the call never fails and always completes with
\* a point, whatever the origin, distance and bearing: the function's value
\* on the arguments is a point of two coordinates, no state of the call is a
\* panic, and the call is always at one of its five lines or has returned
\* that point after its thirteen trigonometric calls.
C7_KnownUnitAlwaysReturns ==
  units \in KnownUnits =>
    /\ Len(coordinates(destination(point, distance, bearing, units))) = 2
    /\ pc \in {"to_radians", "match_units", "dlat", "dlng", "return",
               "returned"}
    /\ panic_msg = Unset
    /\ pc = "returned" =>
         /\ result = destination(point, distance, bearing, units)
         /\ trig_calls = 13

C7_Witness ==
  /\ pc = "returned"
  /\ units \in KnownUnits
  /\ coordinates(point)[2] = Int2Num(180)
  /\ coordinates(point)[1] = Int2Num(200)
  /\ distance = ArcLength(-1, "meters")
  /\ Len(coordinates(result)) = 2

\* C8: no step of a call, on the returning path or on the failing one,
\* changes the input point or any other argument.
C8_InputsUnchanged ==
  [][/\ point' = point
     /\ distance' = distance
     /\ bearing' = bearing
     /\ units' = units]_vars

C8_Witness ==
  /\ pc = "returned"
  /\ result # point
  /\ point \in Points

\* C9 as stated: for every origin p, bearing and recognized unit,
\* destination(p, 0, bearing, unit) = p.
C9_ZeroDistanceIdentity ==
  (pc = "returned" /\ distance = Zero) => result = point

\* C9 amended: for every origin p whose latitude lies in [-90, 90] degrees,
\* every bearing and every recognized unit, destination(p, 0, bearing, unit)
\* = p.
C9_ZeroDistanceIdentityInRange ==
  (/\ pc = "returned"
   /\ distance = Zero
   /\ LET la == coordinates(point)[2]
      IN IsRat(la) /\ Abs(la.n) <= 90 * la.d)
  => result = point

C9_Witness ==
  /\ pc = "returned"
  /\ distance = Zero
  /\ point = FeaturePoint_new(<<Int2Num(200), Int2Num(-90)>>)
  /\ bearing = Int2Num(45)
  /\ result = point

\* C10: a distance of d kilometers with unit "km" gives the same point as d
\* converted to miles with unit "mi".
C10_UnitEquivalence ==
  (pc = "returned" /\ units \in {str_km, str_kilometers}) =>
    \A mu \in {str_mi, str_miles} :
      result = destination(point, km_to_mi(distance), bearing, mu)

C10_Witness ==
  /\ pc = "returned"
  /\ units = str_km
  /\ distance = ArcLength(1, "kilometers")
  /\ point = FeaturePoint_new(<<Int2Num(0), Int2Num(0)>>)
  /\ bearing = Int2Num(90)
  /\ result = FeaturePoint_new(<<Int2Num(90), Int2Num(0)>>)
  /\ result = destination(point, ArcLength(1, "miles"), bearing, str_mi)

=============================================================================
